---- MODULE Spec2Model ----
(***************************************************************************)
(* Model of fundraising/forms.py: PaymentForm (field validation) and       *)
(* PaymentForm.make_donation (the Stripe customer / charge / subscription  *)
(* protocol, the exception dispatch and the creation of the Donation row). *)
(*                                                                         *)
(* Text values are sequences of symbols (the empty string is << >>), so    *)
(* that stripping and integer parsing are computed.  The interval and the  *)
(* campaign key are atomic strings ("" is the empty submission).  A key    *)
(* missing from the submitted data and an empty value are the same thing   *)
(* to every field of the form, so the raw data always carries all keys.    *)
(***************************************************************************)
EXTENDS Integers, Sequences, FiniteSets, TLC

\* ------------------------------------------------------------------ bounds
\* number of form submissions (processing runs) explored one after another
MaxRuns == 1
\* raw amounts include the decimal renderings of 0..MaxAmount
MaxAmount == 1

\* --------------------------------------------------------------- constants
\* min_value of PaymentForm.amount
MIN_AMOUNT == 1
\* the factor of "amount * 100" in the Charge.create call
CENTS == 100

INTERVAL_CHOICES == {"monthly", "quarterly", "yearly", "onetime"}

\* Campaign.objects.all(): the primary keys of the campaigns that exist
Campaigns == {"1"}
\* cleaned value of an empty campaign field (Python None, falsy)
NoCampaign == ""

EmptyStr == << >>

\* ------------------------------------------------------- Python values
PyNone == [none |-> TRUE]
PyStr(s) == [none |-> FALSE, str |-> s]

\* ------------------------------------------------------ field cleaning
DigitChars == <<"0", "1", "2", "3", "4", "5", "6", "7", "8", "9">>

IsDigit(c) == \E i \in 1..10 : DigitChars[i] = c

DigitVal(c) == (CHOOSE i \in 1..10 : DigitChars[i] = c) - 1

IsSpace(c) == c = " "

RECURSIVE LStrip(_)
LStrip(s) ==
    IF s # << >> /\ IsSpace(Head(s)) THEN LStrip(Tail(s)) ELSE s

RECURSIVE RStrip(_)
RStrip(s) ==
    IF s # << >> /\ IsSpace(s[Len(s)]) THEN RStrip(SubSeq(s, 1, Len(s) - 1)) ELSE s

\* str.strip()
Strip(s) == LStrip(RStrip(s))

RECURSIVE DigitsValue(_)
\* value of a non-empty all-digit string
DigitsValue(s) ==
    IF s = << >> THEN 0
    ELSE 10 * DigitsValue(SubSeq(s, 1, Len(s) - 1)) + DigitVal(s[Len(s)])

AllDigits(s) == s # << >> /\ \A i \in 1..Len(s) : IsDigit(s[i])

\* int(str): optional sign followed by digits; anything else is a ValueError
IntParses(s) ==
    \/ AllDigits(s)
    \/ Len(s) > 1 /\ s[1] \in {"-", "+"} /\ AllDigits(Tail(s))

IntValue(s) ==
    IF s[1] = "-" THEN 0 - DigitsValue(Tail(s))
    ELSE IF s[1] = "+" THEN DigitsValue(Tail(s))
    ELSE DigitsValue(s)

\* variant: the field without its min_value
AmountNoMin(raw) ==
    LET s == Strip(raw) IN
    IF s = << >> THEN [ok |-> FALSE, value |-> 0]
    ELSE IF ~IntParses(s) THEN [ok |-> FALSE, value |-> 0]
    ELSE [ok |-> TRUE, value |-> IntValue(s)]

\* amount = forms.IntegerField(required=True, min_value=1)
CleanAmount(raw) ==
    LET s == Strip(raw) IN
    IF s = << >> THEN [ok |-> FALSE, value |-> 0]
    ELSE IF ~IntParses(s) THEN [ok |-> FALSE, value |-> 0]
    ELSE IF IntValue(s) < MIN_AMOUNT THEN [ok |-> FALSE, value |-> 0]
    ELSE [ok |-> TRUE, value |-> IntValue(s)]

\* interval = forms.ChoiceField(required=True, choices=INTERVAL_CHOICES)
CleanInterval(raw) ==
    IF raw = "" THEN [ok |-> FALSE, value |-> ""]
    ELSE IF raw \notin INTERVAL_CHOICES THEN [ok |-> FALSE, value |-> ""]
    ELSE [ok |-> TRUE, value |-> raw]

\* receipt_email = forms.CharField(required=False): stripped, never invalid
CleanReceiptEmail(raw) == [ok |-> TRUE, value |-> Strip(raw)]

\* campaign = forms.ModelChoiceField(queryset=Campaign.objects.all(), required=False)
CleanCampaign(raw) ==
    IF raw = "" THEN [ok |-> TRUE, value |-> NoCampaign]
    ELSE IF raw \notin Campaigns THEN [ok |-> FALSE, value |-> NoCampaign]
    ELSE [ok |-> TRUE, value |-> raw]

\* stripe_token = forms.CharField(): required, stripped
CleanStripeToken(raw) ==
    LET s == Strip(raw) IN
    IF s = << >> THEN [ok |-> FALSE, value |-> s] ELSE [ok |-> TRUE, value |-> s]

\* the fields of PaymentForm, each cleaned on its own
CleanFields(d) ==
    [amount        |-> CleanAmount(d.amount),
     interval      |-> CleanInterval(d.interval),
     receipt_email |-> CleanReceiptEmail(d.receipt_email),
     campaign      |-> CleanCampaign(d.campaign),
     stripe_token  |-> CleanStripeToken(d.stripe_token)]

\* form.errors: the fields whose value was rejected
FormErrors(d) ==
    LET c == CleanFields(d) IN {f \in DOMAIN c : ~c[f].ok}

\* form.cleaned_data: only the fields that passed validation
CleanedData(d) ==
    LET c == CleanFields(d) IN
    [f \in {g \in DOMAIN c : c[g].ok} |-> c[f].value]

\* ------------------------------------------------------- submitted data
RECURSIVE Digits(_)
\* decimal rendering of a natural number
Digits(n) ==
    IF n < 10 THEN <<DigitChars[n + 1]>>
    ELSE Append(Digits(n \div 10), DigitChars[(n % 10) + 1])

RawAmounts ==
    {Digits(n) : n \in 0..MaxAmount}
        \cup {<<"2", "5">>, <<"-", "1">>, <<"x">>, << >>}

RawIntervals == INTERVAL_CHOICES \cup {"weekly"}

RawReceiptEmails == {<< >>, <<" ">>, <<"a", "@", "b">>}

RawCampaigns == {"", "1", "9"}

RawStripeTokens == {<< >>, <<"tok_valid">>}

RawRequests ==
    [amount : RawAmounts, interval : RawIntervals, receipt_email : RawReceiptEmails,
     campaign : RawCampaigns, stripe_token : RawStripeTokens]

\* ------------------------------------------------------------ exceptions
Exc(type, msg, arg) == [type |-> type, msg |-> msg, arg |-> arg]

\* "no exception": the call returned
OK == Exc("ok", "", "")

\* str(card_error) of the declines the processor may report
DeclineReasons == {"Your card was declined.", "Your card has expired."}

\* what a call to Stripe may raise; StripeError stands for the stripe errors
\* with no handler of their own, Exception for anything else
StripeErrors ==
    {Exc("CardError", r, "") : r \in DeclineReasons}
        \cup {Exc(t, "", "") : t \in {"InvalidRequestError", "APIConnectionError",
                                       "AuthenticationError", "StripeError", "Exception"}}

CallResults == {OK} \cup StripeErrors

CARD_MSG == "We're sorry but we had problems charging your card. Here is what Stripe replied: \"%s\""
INVALID_MSG == "We're sorry but something went wrong while processing your card details. No charge was done. Please try again or get in touch with us."
UNREACHABLE_MSG == "We're sorry but we have technical difficulties reaching our payment processor Stripe. No charge was done. Please try again later."

DonationError(msg, arg) == Exc("DonationError", msg, arg)

\* variant: the CardError clause re-raises instead of wrapping
CardErrorReraised(exc) ==
    IF exc.type = "CardError" THEN exc
    ELSE IF exc.type = "InvalidRequestError" THEN DonationError(INVALID_MSG, "")
    ELSE IF exc.type = "APIConnectionError" THEN DonationError(UNREACHABLE_MSG, "")
    ELSE exc

\* variant: no clause for APIConnectionError, which falls to the last clause
ConnectionErrorUnhandled(exc) ==
    IF exc.type = "CardError" THEN DonationError(CARD_MSG, exc.msg)
    ELSE IF exc.type = "InvalidRequestError" THEN DonationError(INVALID_MSG, "")
    ELSE exc

\* variant: the AuthenticationError clause raises a DonationError like its neighbours
AuthErrorWrapped(exc) ==
    IF exc.type = "CardError" THEN DonationError(CARD_MSG, exc.msg)
    ELSE IF exc.type = "InvalidRequestError" THEN DonationError(INVALID_MSG, "")
    ELSE IF exc.type = "APIConnectionError" THEN DonationError(UNREACHABLE_MSG, "")
    ELSE IF exc.type = "AuthenticationError" THEN DonationError(INVALID_MSG, "")
    ELSE exc

\* the except clauses of make_donation, in order: the exception that leaves it
HandleException(exc) ==
    IF exc.type = "CardError" THEN DonationError(CARD_MSG, exc.msg)
    ELSE IF exc.type = "InvalidRequestError" THEN DonationError(INVALID_MSG, "")
    ELSE IF exc.type = "APIConnectionError" THEN DonationError(UNREACHABLE_MSG, "")
    ELSE IF exc.type = "AuthenticationError" THEN exc
    ELSE exc

\* variant: a handler that tries the failed call again
RetryAfterException(at) == at

\* every except clause raises: control leaves make_donation
AfterException(at) == "done"

\* ------------------------------------------------------- call arguments
\* variant: the amount passed in dollars
ChargeAmountInDollars(amt) == amt

\* amount=int(amount * 100)
ChargeAmount(amt) == amt * CENTS

\* quantity=int(amount)
SubscriptionQuantity(amt) == amt

\* variant: the address passed as it is
ReceiptEmailAsIs(s) == PyStr(s)

\* receipt_email or None
OrNone(s) == IF s = EmptyStr THEN PyNone ELSE PyStr(s)

\* if interval == 'onetime': ... else: ...
Branch(intv) == IF intv = "onetime" THEN "charge" ELSE "subscribe"

\* variant: the charge and subscription ids stored in each other's column
DonationParamsIdsSwapped(amt, cust, ch, sub, email, camp) ==
    LET base == [amount                 |-> amt,
                 stripe_customer_id     |-> cust,
                 stripe_charge_id       |-> sub,
                 stripe_subscription_id |-> ch,
                 receipt_email          |-> email]
    IN IF camp # NoCampaign
       THEN [k \in DOMAIN base \cup {"campaign"} |->
                IF k = "campaign" THEN camp ELSE base[k]]
       ELSE base

\* donation_params, with the campaign only when there is one
DonationParams(amt, cust, ch, sub, email, camp) ==
    LET base == [amount                 |-> amt,
                 stripe_customer_id     |-> cust,
                 stripe_charge_id       |-> ch,
                 stripe_subscription_id |-> sub,
                 receipt_email          |-> email]
    IN IF camp # NoCampaign
       THEN [k \in DOMAIN base \cup {"campaign"} |->
                IF k = "campaign" THEN camp ELSE base[k]]
       ELSE base

\* the row Donation(**params) holds: an absent campaign is null
DonationRow(params) ==
    [amount                 |-> params.amount,
     stripe_customer_id     |-> params.stripe_customer_id,
     stripe_charge_id       |-> params.stripe_charge_id,
     stripe_subscription_id |-> params.stripe_subscription_id,
     receipt_email          |-> params.receipt_email,
     campaign               |-> IF "campaign" \in DOMAIN params
                                THEN params.campaign ELSE NoCampaign]

\* variant: the row written over the table instead of inserted
ObjectsOverwrite(table, params) == <<DonationRow(params)>>

\* Donation.objects.create(**donation_params): one more row
ObjectsCreate(table, params) == Append(table, DonationRow(params))

\* ---------------------------------------------------------------- state
VARIABLES
    run,              \* number of submissions so far
    pc,               \* position of the current run
    data,             \* the submitted (raw) form data
    errors,           \* form.errors
    cleaned_data,     \* form.cleaned_data
    receipt_email, amount, campaign, stripe_token, interval,  \* locals, 179-183
    customer,         \* customer.id
    charge_id, subscription_id,
    calls,            \* the calls this run made to Stripe, with their results
    saves,            \* the Donation.objects.create attempts of this run
    outcome,          \* how make_donation ended
    stripe,           \* what exists at the processor
    donations,        \* the Donation table
    atStart           \* stripe and donations when the current run began

form == <<data, errors, cleaned_data>>
locals == <<receipt_email, amount, campaign, stripe_token, interval>>
ids == <<customer, charge_id, subscription_id>>
vars == <<run, pc, data, errors, cleaned_data, receipt_email, amount, campaign,
          stripe_token, interval, customer, charge_id, subscription_id, calls,
          saves, outcome, stripe, donations, atStart>>

NoOutcome == [kind |-> "none"]
Returned(d) == [kind |-> "returned", donation |-> d]
Raised(e) == [kind |-> "raised", exc |-> e]

NoData ==
    [amount |-> << >>, interval |-> "", receipt_email |-> << >>,
     campaign |-> "", stripe_token |-> << >>]

\* what the processor and the Donation table may hold before the run: nothing,
\* or the customer, charge and row of one earlier one-time donation of 25
EarlierCustomer == <<"cus", 1>>
EarlierCharge == <<"ch", 1>>

InitialWorlds ==
    {[stripe    |-> [customers |-> {}, charges |-> {}, subscriptions |-> {}],
      donations |-> << >>],
     [stripe    |-> [customers     |-> {EarlierCustomer},
                     charges       |-> {[id |-> EarlierCharge, customer |-> EarlierCustomer]},
                     subscriptions |-> {}],
      donations |-> ObjectsCreate(<< >>,
                        DonationParams(25, EarlierCustomer, EarlierCharge, EmptyStr,
                                       EmptyStr, NoCampaign))]}

Init ==
    /\ run = 0
    /\ pc = "idle"
    /\ data = NoData
    /\ errors = {}
    /\ cleaned_data = << >>
    /\ receipt_email = EmptyStr
    /\ amount = 0
    /\ campaign = NoCampaign
    /\ stripe_token = EmptyStr
    /\ interval = ""
    /\ customer = EmptyStr
    /\ charge_id = EmptyStr
    /\ subscription_id = EmptyStr
    /\ calls = << >>
    /\ saves = << >>
    /\ outcome = NoOutcome
    /\ \E w \in InitialWorlds :
          /\ stripe = w.stripe
          /\ donations = w.donations
    /\ atStart = [stripe |-> stripe, donations |-> donations]

\* PaymentForm(data) is built and validated; a new run begins
Submit ==
    /\ pc \in {"idle", "done"}
    /\ run < MaxRuns
    /\ \E d \in RawRequests :
          /\ data' = d
          /\ errors' = FormErrors(d)
          /\ cleaned_data' = CleanedData(d)
    /\ run' = run + 1
    /\ pc' = "bound"
    /\ receipt_email' = EmptyStr
    /\ amount' = 0
    /\ campaign' = NoCampaign
    /\ stripe_token' = EmptyStr
    /\ interval' = ""
    /\ customer' = EmptyStr
    /\ charge_id' = EmptyStr
    /\ subscription_id' = EmptyStr
    /\ calls' = << >>
    /\ saves' = << >>
    /\ outcome' = NoOutcome
    /\ atStart' = [stripe |-> stripe, donations |-> donations]
    /\ UNCHANGED <<stripe, donations>>

\* the keys make_donation subscripts, in the order it reads them
SubscriptedKeys == <<"amount", "campaign", "stripe_token", "interval">>

MissingKeys(cd) ==
    {i \in 1..Len(SubscriptedKeys) : SubscriptedKeys[i] \notin DOMAIN cd}

FirstMissing(cd) ==
    SubscriptedKeys[CHOOSE i \in MissingKeys(cd) : \A j \in MissingKeys(cd) : i <= j]

\* make_donation, lines 179-183: the locals are read from cleaned_data
ReadCleanedData ==
    /\ pc = "bound"
    /\ IF MissingKeys(cleaned_data) # {}
       THEN /\ outcome' = Raised(Exc("KeyError", FirstMissing(cleaned_data), ""))
            /\ pc' = "done"
            /\ UNCHANGED locals
       ELSE /\ receipt_email' = IF "receipt_email" \in DOMAIN cleaned_data
                                 THEN cleaned_data["receipt_email"] ELSE EmptyStr
            /\ amount' = cleaned_data["amount"]
            /\ campaign' = cleaned_data["campaign"]
            /\ stripe_token' = cleaned_data["stripe_token"]
            /\ interval' = cleaned_data["interval"]
            /\ pc' = "customer"
            /\ UNCHANGED outcome
    /\ UNCHANGED <<run, form, ids, calls, saves, stripe, donations, atStart>>

Call(op, args, res) == [op |-> op, args |-> args, result |-> res]

NewId(prefix, existing) == <<prefix, Cardinality(existing) + 1>>

\* customer = stripe.Customer.create(card=stripe_token)
CreateCustomer ==
    /\ pc = "customer"
    /\ \E res \in CallResults :
          /\ calls' = Append(calls, Call("Customer.create", [card |-> stripe_token], res))
          /\ IF res = OK
             THEN LET id == NewId("cus", stripe.customers) IN
                  /\ stripe' = [stripe EXCEPT !.customers = @ \cup {id}]
                  /\ customer' = id
                  /\ pc' = Branch(interval)
                  /\ UNCHANGED outcome
             ELSE /\ outcome' = Raised(HandleException(res))
                  /\ pc' = AfterException(pc)
                  /\ UNCHANGED <<stripe, customer>>
    /\ UNCHANGED <<run, form, locals, charge_id, subscription_id, saves, donations, atStart>>

\* charge = stripe.Charge.create(...), the onetime branch
CreateCharge ==
    /\ pc = "charge"
    /\ LET args == [amount        |-> ChargeAmount(amount),
                    currency      |-> "usd",
                    customer      |-> customer,
                    receipt_email |-> OrNone(receipt_email)]
       IN \E res \in CallResults :
          /\ calls' = Append(calls, Call("Charge.create", args, res))
          /\ IF res = OK
             THEN LET id == NewId("ch", stripe.charges) IN
                  /\ stripe' = [stripe EXCEPT !.charges =
                                   @ \cup {[id |-> id, customer |-> customer]}]
                  /\ subscription_id' = EmptyStr
                  /\ charge_id' = id
                  /\ pc' = "save"
                  /\ UNCHANGED outcome
             ELSE /\ outcome' = Raised(HandleException(res))
                  /\ pc' = AfterException(pc)
                  /\ UNCHANGED <<stripe, charge_id, subscription_id>>
    /\ UNCHANGED <<run, form, locals, customer, saves, donations, atStart>>

\* subscription = customer.subscriptions.create(...), the other branch
CreateSubscription ==
    /\ pc = "subscribe"
    /\ LET args == [customer |-> customer,
                    plan     |-> interval,
                    quantity |-> SubscriptionQuantity(amount)]
       IN \E res \in CallResults :
          /\ calls' = Append(calls, Call("subscriptions.create", args, res))
          /\ IF res = OK
             THEN LET id == NewId("sub", stripe.subscriptions) IN
                  /\ stripe' = [stripe EXCEPT !.subscriptions =
                                   @ \cup {[id |-> id, customer |-> customer]}]
                  /\ charge_id' = EmptyStr
                  /\ subscription_id' = id
                  /\ pc' = "save"
                  /\ UNCHANGED outcome
             ELSE /\ outcome' = Raised(HandleException(res))
                  /\ pc' = AfterException(pc)
                  /\ UNCHANGED <<stripe, charge_id, subscription_id>>
    /\ UNCHANGED <<run, form, locals, customer, saves, donations, atStart>>

\* the else clause: Donation.objects.create(**donation_params); the insert
\* either adds the row or raises and adds nothing
CreateDonation ==
    /\ pc = "save"
    /\ LET params == DonationParams(amount, customer, charge_id, subscription_id,
                                    receipt_email, campaign)
       IN \E saved \in BOOLEAN :
          /\ saves' = Append(saves, [params |-> params, saved |-> saved])
          /\ IF saved
             THEN /\ donations' = ObjectsCreate(donations, params)
                  /\ outcome' = Returned(DonationRow(params))
             ELSE /\ outcome' = Raised(Exc("DatabaseError", "", ""))
                  /\ UNCHANGED donations
    /\ pc' = "done"
    /\ UNCHANGED <<run, form, locals, ids, calls, stripe, atStart>>

Next ==
    \/ Submit
    \/ ReadCleanedData
    \/ CreateCustomer
    \/ CreateCharge
    \/ CreateSubscription
    \/ CreateDonation

Spec == Init /\ [][Next]_vars

\* ------------------------------------------------------------ properties
Done == pc = "done"

NoNewDonation == donations = atStart.donations

\* the row this run inserted, when it is the one row added since the run began
OneNewDonation == Len(donations) = Len(atStart.donations) + 1

NewDonation == donations[Len(donations)]

IsPrefix(s, t) == Len(s) <= Len(t) /\ SubSeq(t, 1, Len(s)) = s

Failed(t) == \E i \in 1..Len(calls) : calls[i].result.type = t

\* customer creation and the charge or subscription call both returned
BothCallsOk == Len(calls) = 2 /\ calls[1].result = OK /\ calls[2].result = OK

SaveFailed == Len(saves) = 1 /\ ~saves[1].saved

SaveSucceeded == Len(saves) = 1 /\ saves[1].saved

\* C1: every persisted Donation has exactly one of the charge id and the
\* subscription id non-empty; the row of a onetime request has the charge id,
\* the row of a monthly, quarterly or yearly request has the subscription id.
C1_ExactlyOneId ==
    /\ \A i \in 1..Len(donations) :
          (donations[i].stripe_charge_id = EmptyStr)
              # (donations[i].stripe_subscription_id = EmptyStr)
    /\ Done /\ outcome.kind = "returned" =>
          /\ OneNewDonation
          /\ outcome.donation = NewDonation
          /\ IF cleaned_data["interval"] = "onetime"
             THEN /\ NewDonation.stripe_charge_id # EmptyStr
                  /\ NewDonation.stripe_subscription_id = EmptyStr
             ELSE /\ NewDonation.stripe_subscription_id # EmptyStr
                  /\ NewDonation.stripe_charge_id = EmptyStr

C1_Witness ==
    /\ Done
    /\ outcome.kind = "returned"
    /\ cleaned_data["interval"] = "quarterly"
    /\ NewDonation.stripe_subscription_id # EmptyStr

\* C2: the charge call gets the request's amount times 100, the subscription
\* call gets the request's amount as its quantity, and the persisted Donation
\* stores the request's amount.
C2_AmountUnits ==
    /\ \A i \in 1..Len(calls) :
          /\ calls[i].op = "Charge.create" =>
                calls[i].args.amount = cleaned_data["amount"] * 100
          /\ calls[i].op = "subscriptions.create" =>
                calls[i].args.quantity = cleaned_data["amount"]
    /\ Done /\ outcome.kind = "returned" =>
          /\ OneNewDonation
          /\ NewDonation.amount = cleaned_data["amount"]

C2_Witness ==
    /\ Done
    /\ outcome.kind = "returned"
    /\ data.amount = <<"2", "5">>
    /\ calls[2].op = "Charge.create"
    /\ calls[2].args.amount = 2500
    /\ NewDonation.amount = 25

IsBlank(s) == \A i \in 1..Len(s) : s[i] = " "

\* C3: the receipt email argument of the charge call is never the empty
\* string: it is None when the submitted receipt email is absent or blank and
\* the given address otherwise.
C3_ReceiptEmailNeverEmpty ==
    \A i \in 1..Len(calls) :
        calls[i].op = "Charge.create" =>
            /\ calls[i].args.receipt_email # PyStr(EmptyStr)
            /\ IF IsBlank(data.receipt_email)
               THEN calls[i].args.receipt_email = PyNone
               ELSE calls[i].args.receipt_email = PyStr(cleaned_data["receipt_email"])

C3_Witness ==
    /\ Len(calls) = 2
    /\ calls[2].op = "Charge.create"
    /\ data.receipt_email = <<" ">>
    /\ calls[2].args.receipt_email = PyNone

\* C4: a CardError from any processor call ends the run with the DonationError
\* that quotes the processor's decline reason, and no Donation is persisted.
C4_CardDeclined ==
    \A i \in 1..Len(calls) :
        Done /\ calls[i].result.type = "CardError" =>
            /\ outcome = Raised(DonationError(CARD_MSG, calls[i].result.msg))
            /\ NoNewDonation

C4_Witness ==
    /\ Done
    /\ Len(calls) = 2
    /\ calls[2].op = "subscriptions.create"
    /\ calls[2].result.type = "CardError"
    /\ outcome.exc.arg = "Your card has expired."

\* C5: an APIConnectionError from the customer call or from the charge or
\* subscription call ends the run with the "cannot reach the processor"
\* DonationError; no Donation is persisted and the run leaves no charge and no
\* subscription at the processor.
C5_ProcessorUnreachable ==
    Done /\ Failed("APIConnectionError") =>
        /\ outcome = Raised(DonationError(UNREACHABLE_MSG, ""))
        /\ NoNewDonation
        /\ stripe.charges = atStart.stripe.charges
        /\ stripe.subscriptions = atStart.stripe.subscriptions

C5_Witness ==
    /\ Done
    /\ Len(calls) = 2
    /\ calls[2].op = "Charge.create"
    /\ calls[2].result.type = "APIConnectionError"
    /\ stripe.customers # atStart.stripe.customers

\* a submission the validation rules reject: the amount is not a number or is
\* below 1, the interval is not a known one, or the payment token is missing
RawFailsValidation(d) ==
    \/ Strip(d.amount) = EmptyStr
    \/ ~IntParses(Strip(d.amount))
    \/ IntValue(Strip(d.amount)) < 1
    \/ d.interval \notin {"monthly", "quarterly", "yearly", "onetime"}
    \/ IsBlank(d.stripe_token)

\* C6: a submission that fails validation never reaches the processor: the run
\* ends with an error, with form errors reported, and without any call.
C6_ValidationBeforeProcessor ==
    pc # "idle" /\ RawFailsValidation(data) =>
        /\ calls = << >>
        /\ stripe = atStart.stripe
        /\ errors # {}
        /\ pc \in {"bound", "done"}
        /\ Done => outcome.kind = "raised" /\ NoNewDonation

C6_Witness ==
    /\ Done
    /\ data.amount = <<"0">>
    /\ data.interval = "onetime"
    /\ data.stripe_token = <<"tok_valid">>
    /\ errors = {"amount"}
    /\ calls = << >>

\* the new row carries the run's customer id and the request's fields
CarriesRunData(d) ==
    /\ d.stripe_customer_id = customer
    /\ customer \in stripe.customers \ atStart.stripe.customers
    /\ d.amount = cleaned_data["amount"]
    /\ d.receipt_email = cleaned_data["receipt_email"]
    /\ d.campaign = cleaned_data["campaign"]

\* the rows present when the run began are still there, unchanged, and at
\* most one row was added
ExistingRowsKept ==
    /\ IsPrefix(atStart.donations, donations)
    /\ Len(donations) <= Len(atStart.donations) + 1

C8_PersistenceErrorSurfaced ==
    Done /\ BothCallsOk /\ SaveFailed =>
        /\ outcome.kind = "raised"
        /\ outcome.exc.type = "PersistenceError"
        /\ outcome.exc.arg = <<amount, customer, charge_id, subscription_id>>

\* C9: an AuthenticationError, any other stripe error and any unexpected
\* exception leave make_donation as they were raised, not as a DonationError,
\* and no Donation is persisted.
C9_OperationalErrorsPropagate ==
    \A i \in 1..Len(calls) :
        Done /\ calls[i].result.type \in {"AuthenticationError", "StripeError", "Exception"} =>
            /\ outcome = Raised(calls[i].result)
            /\ outcome.exc.type # "DonationError"
            /\ NoNewDonation

C9_Witness ==
    /\ Done
    /\ Len(calls) = 1
    /\ calls[1].result.type = "AuthenticationError"
    /\ outcome.exc.type = "AuthenticationError"

\* C10: one run calls Customer.create at most once and first, then at most one
\* of Charge.create and subscriptions.create, once, only after the customer
\* call succeeded; a call that failed is the last call of the run.
C10_SequentialNoRetry ==
    /\ Len(calls) <= 2
    /\ Len(calls) >= 1 => calls[1].op = "Customer.create"
    /\ Len(calls) = 2 =>
          /\ calls[1].result = OK
          /\ calls[2].op \in {"Charge.create", "subscriptions.create"}
    /\ \A i \in 1..Len(calls) :
          calls[i].result # OK => i = Len(calls) /\ Done

C10_Witness ==
    /\ Done
    /\ Len(calls) = 1
    /\ calls[1].result.type = "InvalidRequestError"
    /\ stripe = atStart.stripe

====
